---- MODULE Spec2Model ----
(***************************************************************************)
(* Model of pygeoapi/formatter/csv_.py: CSVFormatter.__init__ and          *)
(* CSVFormatter.write.                                                     *)
(*                                                                         *)
(* Python values are records tagged with their type.  A dict is a sequence *)
(* of [k, v] items in insertion order (Python dicts keep insertion order). *)
(* The CSV payload is held as the list of lines the writer emitted, each a *)
(* list of cell texts; delimiters, quoting and line terminators belong to  *)
(* the csv library and are not part of this module.                        *)
(***************************************************************************)
EXTENDS Integers, Sequences, FiniteSets, TLC

MaxFeatures == 2
MaxCalls == 2

(* ---------------- Python values ---------------- *)

PyInt(n) == [t |-> "int", n |-> n]
PyStr(s) == [t |-> "str", s |-> s]
PyList(xs) == [t |-> "list", items |-> xs]
PyNone == [t |-> "NoneType"]

\* A str holding a lone surrogate (json.loads('"\\ud800"')): not encodable as UTF-8.
Surrogate == "\\ud800"

(* ---------------- dict operations ---------------- *)

keys(d) == [j \in 1..Len(d) |-> d[j].k]

HasKey(d, key) == \E j \in 1..Len(d) : d[j].k = key

\* d.get(key, default)
DictGet(d, key, default) ==
    IF HasKey(d, key)
    THEN d[CHOOSE j \in 1..Len(d) : d[j].k = key].v
    ELSE default

\* d[key] = value: an existing key keeps its position, a new key is appended.
DictSet(d, key, value) ==
    IF HasKey(d, key)
    THEN [j \in 1..Len(d) |-> IF d[j].k = key THEN [k |-> key, v |-> value] ELSE d[j]]
    ELSE Append(d, [k |-> key, v |-> value])

\* list.insert(pos, x) with a 0-based position inside the list
ListInsert(xs, pos, x) ==
    SubSeq(xs, 1, pos) \o <<x>> \o SubSeq(xs, pos + 1, Len(xs))

(* ---------------- the options of a call ---------------- *)

NoOptions == <<>>

provider_def(opts) == DictGet(opts, "provider_def", <<>>)

geometry_field_name(opts) ==
    DictGet(provider_def(opts), "geom_field", "coordinates")

csv_formatting_options(opts) ==
    DictGet(provider_def(opts), "csv_formatting_options", <<>>)

include_id(opts) == DictGet(csv_formatting_options(opts), "include_id", TRUE)

lat_colname(opts) == DictGet(csv_formatting_options(opts), "lat_colname", "x")

lon_colname(opts) == DictGet(csv_formatting_options(opts), "lon_colname", "y")

Item(key, value) == [k |-> key, v |-> value]

\* The option mappings a caller passes; the first is the default `options={}`.
OptionChoices ==
    << NoOptions,
       << Item("provider_def",
               << Item("csv_formatting_options", << Item("include_id", FALSE) >>) >>) >>,
       << Item("provider_def",
               << Item("geom_field", "g"),
                  Item("csv_formatting_options",
                       << Item("lat_colname", "a"), Item("lon_colname", "lon") >>) >>) >>,
       << Item("provider_def",
               << Item("geom_field", "g"),
                  Item("csv_formatting_options",
                       << Item("include_id", FALSE),
                          Item("lat_colname", "a"), Item("lon_colname", "lon") >>) >>) >> >>

(* ---------------- the feature collections ---------------- *)

Point == [type |-> "Point", coordinates |-> <<PyInt(3), PyInt(4)>>]

LineString ==
    [type |-> "LineString",
     coordinates |-> << PyList(<<PyInt(0), PyInt(0)>>), PyList(<<PyInt(1), PyInt(1)>>) >>]

\* geometry: null is the record whose type is "NoneType"
Null == [type |-> "NoneType", coordinates |-> <<>>]

GeometryChoices == {Null, Point, LineString}

PropertiesChoices ==
    { << Item("a", PyInt(5)) >>,
      << Item("a", PyNone), Item("b", PyStr("u")) >>,
      << Item("b", PyStr("u")), Item("a", PyInt(5)) >>,
      << Item("a", PyStr(Surrogate)) >> }

FeatureChoices ==
    { [properties |-> p, geometry |-> g] : p \in PropertiesChoices, g \in GeometryChoices }

\* Feature k of a collection carries the id k.
Collections ==
    UNION { { [k \in 1..n |-> [id |-> PyInt(k),
                               properties |-> f[k].properties,
                               geometry |-> f[k].geometry]] :
              f \in [1..n -> FeatureChoices] } : n \in 0..MaxFeatures }

(* ---------------- external collaborators ---------------- *)

RECURSIVE IntText(_)
\* str(n) for n >= 0
IntText(n) ==
    IF n < 10
    THEN <<"0", "1", "2", "3", "4", "5", "6", "7", "8", "9">>[n + 1]
    ELSE IntText(n \div 10) \o IntText(n % 10)

RECURSIVE Join(_, _)
Join(texts, sep) ==
    IF texts = <<>> THEN ""
    ELSE IF Len(texts) = 1 THEN texts[1]
    ELSE texts[1] \o sep \o Join(Tail(texts), sep)

\* str(value) as csv.writer renders a field; None is written as the empty string
FieldText(value) ==
    CASE value.t = "NoneType" -> ""
      [] value.t = "str" -> value.s
      [] value.t = "int" -> IntText(value.n)
      [] value.t = "list" ->
            "[" \o Join([j \in 1..Len(value.items) |-> IntText(value.items[j].n)], ", ") \o "]"

\* shapely.geometry.shape(geometry).wkt
wkt(geometry) ==
    IF geometry.type = "Point"
    THEN "POINT (" \o Join([j \in 1..Len(geometry.coordinates) |->
                               IntText(geometry.coordinates[j].n)], " ") \o ")"
    ELSE "LINESTRING (" \o
         Join([j \in 1..Len(geometry.coordinates) |->
                  Join([m \in 1..Len(geometry.coordinates[j].items) |->
                           IntText(geometry.coordinates[j].items[m].n)], " ")], ", ") \o ")"

\* text.encode('utf-8', 'strict') succeeds
Encodable(text) == text # Surrogate

\* DictWriter built with a placeholder for missing keys
DictWriter_restval(fieldnames) ==
    [fieldnames |-> fieldnames, restval |-> PyStr("NA"), extrasaction |-> "raise"]

\* csv.DictWriter(f, fieldnames): restval and extrasaction keep their defaults
DictWriter(fieldnames) ==
    [fieldnames |-> fieldnames, restval |-> PyStr(""), extrasaction |-> "raise"]

\* DictWriter._dict_to_list: the keys of the row that are no field names
wrong_fields(writer, rowdict) ==
    { rowdict[j].k : j \in 1..Len(rowdict) } \
        { writer.fieldnames[j] : j \in 1..Len(writer.fieldnames) }

\* DictWriter._dict_to_list: one cell per field name, restval for a missing key
dict_to_list(writer, rowdict) ==
    [j \in 1..Len(writer.fieldnames) |->
        FieldText(DictGet(rowdict, writer.fieldnames[j], writer.restval))]

\* DictWriter.writeheader: the field names as a row of their own
header_line(writer) == writer.fieldnames

NoError == ""

\* DictWriter.writerow: the exception it raises for this row, NoError for none.
\* Extra keys raise ValueError before anything is rendered; a cell that cannot
\* be encoded raises UnicodeEncodeError when the line reaches the buffer.
writerow_error(writer, rowdict) ==
    IF writer.extrasaction = "raise" /\ wrong_fields(writer, rowdict) # {}
    THEN "ValueError"
    ELSE IF \E j \in 1..Len(writer.fieldnames) : ~Encodable(dict_to_list(writer, rowdict)[j])
    THEN "UnicodeEncodeError"
    ELSE NoError

\* The exception classes `except ValueError` catches.
ValueErrors == {"ValueError", "UnicodeEncodeError"}

(* ---------------- CSVFormatter ---------------- *)

FormatterDefs == << <<>>, << Item("geom", TRUE) >>, << Item("geom", FALSE) >> >>

\* CSVFormatter.__init__
init(formatter_def) ==
    [name |-> "csv",
     geom |-> DictGet(formatter_def, "geom", FALSE),
     mimetype |-> "text/csv; charset=utf-8"]

\* data['features'][0]['geometry']['type'] raises TypeError on a null geometry
first_geometry_raises(slf, features) ==
    slf.geom /\ features[1].geometry.type = "NoneType"

\* is_point as write sets it from the first feature
point_flattening(slf, features) ==
    slf.geom /\ features[1].geometry.type = "Point"

\* derive_fields with the id column inserted before the geometry columns are
derive_fields_id_early(slf, opts, features) ==
    LET props == keys(features[1].properties)
        withid == IF include_id(opts) THEN ListInsert(props, 0, "id") ELSE props
    IN  IF slf.geom
        THEN IF features[1].geometry.type = "Point"
             THEN ListInsert(ListInsert(withid, 0, lat_colname(opts)), 1, lon_colname(opts))
             ELSE ListInsert(withid, 0, geometry_field_name(opts))
        ELSE withid

\* The column list write derives from the first feature and the options.
derive_fields(slf, opts, features) ==
    LET props == keys(features[1].properties)
        withgeom ==
            IF slf.geom
            THEN IF features[1].geometry.type = "Point"
                 THEN ListInsert(ListInsert(props, 0, lat_colname(opts)), 1, lon_colname(opts))
                 ELSE ListInsert(props, 0, geometry_field_name(opts))
            ELSE props
    IN  IF include_id(opts) THEN ListInsert(withgeom, 0, "id") ELSE withgeom

\* the loop body reading the first feature in every iteration
loop_feature_first(features, pos) == features[1]

\* The feature the loop body works on in iteration pos.
loop_feature(features, pos) == features[pos]

\* feature['geometry']['coordinates'][0] raises TypeError on a null geometry
coordinates_raise(isp, feature) == isp /\ feature.geometry.type = "NoneType"

\* row_dict with the two coordinate indexes exchanged
row_dict_swapped(slf, opts, isp, feature) ==
    LET fp0 == feature.properties
        fp1 ==
            IF isp
            THEN DictSet(DictSet(fp0, lat_colname(opts), feature.geometry.coordinates[2]),
                         lon_colname(opts), feature.geometry.coordinates[1])
            ELSE IF slf.geom /\ feature.geometry.type # "NoneType"
                 THEN DictSet(fp0, geometry_field_name(opts), PyStr(wkt(feature.geometry)))
                 ELSE fp0
    IN  IF include_id(opts) THEN DictSet(fp1, "id", feature.id) ELSE fp1

\* fp after the loop body's assignments: the feature's properties mapping itself,
\* with the geometry and id entries stored into it.
row_dict(slf, opts, isp, feature) ==
    LET fp0 == feature.properties
        fp1 ==
            IF isp
            THEN DictSet(DictSet(fp0, lat_colname(opts), feature.geometry.coordinates[1]),
                         lon_colname(opts), feature.geometry.coordinates[2])
            ELSE IF slf.geom /\ feature.geometry.type # "NoneType"
                 THEN DictSet(fp0, geometry_field_name(opts), PyStr(wkt(feature.geometry)))
                 ELSE fp0
    IN  IF include_id(opts) THEN DictSet(fp1, "id", feature.id) ELSE fp1

\* The properties mapping of the feature once the loop body has stored into fp:
\* fp is feature['properties'] itself, not a copy.
stored_properties(feature, fp) == fp

\* an except clause that catches nothing the writer raises
except_clause_passthrough(exc) == exc

\* except ValueError: raise FormatterSerializationError; anything else propagates
except_clause(exc) ==
    IF exc \in ValueErrors THEN "FormatterSerializationError" ELSE exc

Returned(opts, buffer) ==
    [options |-> opts, status |-> "returned", error |-> NoError, value |-> buffer]

Raised(opts, exc) ==
    [options |-> opts, status |-> "raised", error |-> exc, value |-> <<>>]

\* the IndexError of features[0] left uncaught
no_features_uncaught(opts) == Raised(opts, "IndexError")

\* What write does with an empty feature list: IndexError caught, str() returned.
no_features(opts) == Returned(opts, <<>>)

VARIABLES
    self,      \* the formatter: name, geom, mimetype
    data,      \* data['features'], the caller's feature collection
    pc,        \* "idle" between calls, "loop" inside write's for loop
    options,   \* the options argument of the current (or last) call
    entry,     \* data['features'] as it was when the current (or last) call began
    fields,    \* write's local: the column list
    is_point,  \* write's local
    output,    \* write's local: the lines in the BytesIO buffer
    idx,       \* write's local: position of the for loop, 1-based
    handed,    \* the row dicts passed to writer.writerow in this call
    returns    \* one record per finished call: its options and how it ended

vars == <<self, data, pc, options, entry, fields, is_point, output, idx, handed, returns>>

Init ==
    /\ \E n \in 1..Len(FormatterDefs) : self = init(FormatterDefs[n])
    /\ data \in Collections
    /\ pc = "idle"
    /\ options = NoOptions
    /\ entry = data
    /\ fields = <<>>
    /\ is_point = FALSE
    /\ output = <<>>
    /\ idx = 0
    /\ handed = <<>>
    /\ returns = <<>>

\* write, from its first line to writer.writeheader()
WriteBegin ==
    /\ pc = "idle"
    /\ Len(returns) < MaxCalls
    /\ \E n \in 1..Len(OptionChoices) :
         LET opts == OptionChoices[n] IN
         /\ options' = opts
         /\ entry' = data
         /\ handed' = <<>>
         /\ IF Len(data) = 0
            THEN /\ returns' = Append(returns, no_features(opts))
                 /\ fields' = <<>> /\ is_point' = FALSE /\ output' = <<>>
                 /\ idx' = 0
                 /\ pc' = "idle"
            ELSE IF first_geometry_raises(self, data)
            THEN /\ returns' = Append(returns, Raised(opts, "TypeError"))
                 /\ fields' = keys(data[1].properties)
                 /\ is_point' = FALSE /\ output' = <<>>
                 /\ idx' = 0
                 /\ pc' = "idle"
            ELSE /\ fields' = derive_fields(self, opts, data)
                 /\ is_point' = point_flattening(self, data)
                 /\ output' = << header_line(DictWriter(derive_fields(self, opts, data))) >>
                 /\ pc' = "loop"
                 /\ idx' = 1
                 /\ returns' = returns
    /\ UNCHANGED <<self, data>>

\* one iteration of `for feature in data['features']`
WriteRow ==
    /\ pc = "loop"
    /\ idx <= Len(data)
    /\ LET feature == loop_feature(data, idx)
           fp == row_dict(self, options, is_point, feature)
           writer == DictWriter(fields)
           exc == writerow_error(writer, fp)
       IN  IF coordinates_raise(is_point, feature)
           THEN /\ returns' = Append(returns, Raised(options, except_clause("TypeError")))
                /\ pc' = "idle"
                /\ UNCHANGED <<data, output, idx, handed>>
           ELSE /\ data' = [data EXCEPT ![idx].properties = stored_properties(feature, fp)]
                /\ handed' = Append(handed, fp)
                /\ IF exc # NoError
                   THEN /\ returns' = Append(returns, Raised(options, except_clause(exc)))
                        /\ pc' = "idle"
                        /\ UNCHANGED <<output, idx>>
                   ELSE /\ output' = Append(output, dict_to_list(writer, fp))
                        /\ idx' = idx + 1
                        /\ UNCHANGED <<returns, pc>>
    /\ UNCHANGED <<self, options, entry, fields, is_point>>

\* return output.getvalue()
WriteReturn ==
    /\ pc = "loop"
    /\ idx > Len(data)
    /\ returns' = Append(returns, Returned(options, output))
    /\ pc' = "idle"
    /\ UNCHANGED <<self, data, options, entry, fields, is_point, output, idx, handed>>

Next == WriteBegin \/ WriteRow \/ WriteReturn

Spec == Init /\ [][Next]_vars

(* ---------------- properties ---------------- *)

\* A call of write has ended and no other has begun.
Finished == pc = "idle" /\ returns # <<>>

LastReturn == returns[Len(returns)]

ReturnedOk == Finished /\ LastReturn.status = "returned"

InList(xs, x) == \E j \in 1..Len(xs) : xs[j] = x

\* The header the column derivation rules prescribe for the collection as it
\* was when the call began.
ExpectedHeader ==
    (IF include_id(options) THEN <<"id">> ELSE <<>>)
    \o (IF self.geom
        THEN IF entry[1].geometry.type = "Point"
             THEN <<lat_colname(options), lon_colname(options)>>
             ELSE <<geometry_field_name(options)>>
        ELSE <<>>)
    \o keys(entry[1].properties)

\* C1: whenever write gets as far as writing a header for a non-empty
\* collection, the header is 'id' (if include_id), then the geometry columns
\* (lat, lon for a Point first feature, geom_field otherwise, if geom), then the
\* first feature's property keys in their order; a returned payload starts
\* with that header.
C1_HeaderOrder ==
    /\ (output # <<>> => output[1] = ExpectedHeader)
    /\ (ReturnedOk /\ Len(entry) > 0 => LastReturn.value[1] = ExpectedHeader)

C1_Witness ==
    /\ ReturnedOk
    /\ self.geom
    /\ include_id(options)
    /\ Len(entry) = 2
    /\ entry[1].geometry.type = "Point"
    /\ entry[2].geometry.type = "LineString"
    /\ keys(entry[1].properties) = <<"b", "a">>
    /\ keys(entry[2].properties) = <<"a">>

\* The cell the row of feature f must show in column col.
ExpectedCell(f, col) ==
    IF include_id(options) /\ col = "id" THEN FieldText(f.id)
    ELSE IF is_point /\ col = lon_colname(options)
    THEN FieldText(f.geometry.coordinates[2])
    ELSE IF is_point /\ col = lat_colname(options)
    THEN FieldText(f.geometry.coordinates[1])
    ELSE IF ~is_point /\ self.geom /\ f.geometry.type # "NoneType"
            /\ col = geometry_field_name(options)
    THEN wkt(f.geometry)
    ELSE IF HasKey(f.properties, col)
    THEN FieldText(DictGet(f.properties, col, PyNone))
    ELSE ""

\* C2: a successful write on a non-empty collection returns the header line
\* followed by exactly one line per feature, line k built from feature k.
C2_RowPerFeature ==
    ReturnedOk /\ Len(entry) > 0 =>
        /\ Len(LastReturn.value) = 1 + Len(entry)
        /\ LastReturn.value[1] = fields
        /\ \A k \in 1..Len(entry) :
              LastReturn.value[k + 1] =
                  [j \in 1..Len(fields) |-> ExpectedCell(entry[k], fields[j])]

C2_Witness ==
    /\ ReturnedOk
    /\ Len(entry) = 2
    /\ entry[1].properties # entry[2].properties
    /\ entry[1].geometry # entry[2].geometry
    /\ self.geom

\* C3: write on an empty feature list returns the empty string and does not
\* raise, whatever the geom flag and the options.
C3_EmptyCollection ==
    Finished /\ Len(entry) = 0 =>
        /\ LastReturn.status = "returned"
        /\ LastReturn.error = NoError
        /\ LastReturn.value = <<>>

C3_Witness ==
    /\ Finished
    /\ Len(entry) = 0
    /\ self.geom
    /\ ~include_id(options)
    /\ geometry_field_name(options) = "g"
    /\ lat_colname(options) = "a"

\* C4: if a row handed to the writer has a key outside the header or a value
\* that cannot be serialized, the call ends in FormatterSerializationError and
\* yields no output, however many rows were written before.
C4_SerializationError ==
    Finished /\ (\E j \in 1..Len(handed) :
                    writerow_error(DictWriter(fields), handed[j]) # NoError) =>
        /\ LastReturn.status = "raised"
        /\ LastReturn.error = "FormatterSerializationError"
        /\ LastReturn.value = <<>>

C4_Witness ==
    /\ Finished
    /\ Len(handed) = 2
    /\ Len(output) = 2
    /\ writerow_error(DictWriter(fields), handed[2]) = "UnicodeEncodeError"
    /\ LastReturn.error = "FormatterSerializationError"

\* C5: two successive calls of write with the same options on the same
\* collection end the same way with the same output.
C5_SameOutputTwice ==
    \A n \in 2..Len(returns) :
        returns[n - 1].options = returns[n].options => returns[n - 1] = returns[n]

\* C6: with geom enabled, a feature with a null geometry never makes write
\* raise (TypeError is what a null geometry raises).
C6_NullGeometryNoRaise ==
    Finished /\ self.geom /\ (\E k \in 1..Len(entry) : entry[k].geometry.type = "NoneType")
        => LastReturn.error # "TypeError"

\* C7: under point flattening every written row shows the feature's
\* coordinates[0] in the lat_colname column and coordinates[1] in the
\* lon_colname column, also where a property has that name, and no geom_field
\* entry is written.
C7_PointFlattening ==
    is_point =>
        /\ ~InList(fields, geometry_field_name(options))
        /\ \A k \in 1..Len(handed) : ~HasKey(handed[k], geometry_field_name(options))
        /\ \A k \in 2..Len(output) : \A j \in 1..Len(fields) :
              /\ fields[j] = lat_colname(options) =>
                    output[k][j] = FieldText(entry[k - 1].geometry.coordinates[1])
              /\ fields[j] = lon_colname(options) =>
                    output[k][j] = FieldText(entry[k - 1].geometry.coordinates[2])

C7_Witness ==
    /\ ReturnedOk
    /\ is_point
    /\ lat_colname(options) = "a"
    /\ Len(entry) = 2
    /\ HasKey(entry[1].properties, "a")
    /\ HasKey(entry[2].properties, "a")
    /\ Len(LastReturn.value) = 3

\* C8: every call of write with include_id=false returns a header without an
\* 'id' column, also after a call with include_id=true on the same collection.
C8_IdSuppressed ==
    ReturnedOk /\ Len(entry) > 0 /\ ~include_id(options) =>
        ~InList(LastReturn.value[1], "id")

\* The columns write computes itself for this call.
ComputedColumns ==
    (IF include_id(options) THEN {"id"} ELSE {})
    \cup (IF is_point THEN {lat_colname(options), lon_colname(options)} ELSE {})
    \cup (IF self.geom /\ ~is_point THEN {geometry_field_name(options)} ELSE {})

\* C9: in a successful output every data row has one cell per header column,
\* and a feature whose properties lack a header column that is a property of
\* the first feature shows an empty cell there.
C9_RowsShareColumns ==
    ReturnedOk /\ Len(entry) > 0 =>
        \A k \in 1..Len(entry) :
            /\ Len(LastReturn.value[k + 1]) = Len(LastReturn.value[1])
            /\ \A j \in 1..Len(LastReturn.value[1]) :
                  (/\ LastReturn.value[1][j] \notin ComputedColumns
                   /\ ~HasKey(entry[k].properties, LastReturn.value[1][j]))
                  => LastReturn.value[k + 1][j] = ""

C9_Witness ==
    /\ ReturnedOk
    /\ Len(entry) = 2
    /\ HasKey(entry[1].properties, "b")
    /\ ~HasKey(entry[2].properties, "b")
    /\ InList(LastReturn.value[1], "b")

\* C10: after a call of write the features and the formatter are what they
\* were before the call.
C10_InputsUnchanged ==
    Finished => data = entry

====
